---- MODULE Spec2Model ----
(***************************************************************************)
(* Season-long player ledger and anomaly-blurb detector of the NBA daily   *)
(* scraper (scripts/scrape.py, scripts/backfill.py).                       *)
(*                                                                         *)
(* Minutes are whole minutes (the "32" form of ESPN's MIN column); the     *)
(* float comparisons of the detector are evaluated exactly by cross        *)
(* multiplication, which agrees with the double arithmetic of the source   *)
(* on whole-minute inputs.                                                 *)
(***************************************************************************)
EXTENDS Integers, Sequences, FiniteSets, TLC

VARIABLES
    plog,       \* the in-memory ledger: player id -> entry (scrape.py plog)
    players,    \* all_game_players of the game processed last
    date,       \* date_str of the game processed last
    prev,       \* ledger as it was right before the last game's update
    blurbs,     \* blurbs returned by generate_blurbs for the last game
    counted,    \* per id: non-dnp stat lines counted into the ledger in memory
    ngames,     \* games processed so far (in this run)
    script,     \* which main is running: "scrape" or "backfill"
    pc,         \* position of the run
    file,       \* player_log.json on disk
    fileAtStart,\* player_log.json as it was when the run started
    docs,       \* dates whose result document <date>.json exists
    cur,        \* date being processed
    last,       \* last date of the run
    left,       \* games of the current date still to process
    clean,      \* ledger holding only the dates whose document was written
    pending,    \* clean plus the games applied for the current date
    errored,    \* a date of this run raised after its games changed the ledger
    nruns,      \* runs started
    gidx,       \* games of the current date processed so far
    played      \* per id: the real games (date, index) the player played in

corevars == <<plog, players, date, prev, blurbs, counted, ngames>>
worldvars == <<gidx, played>>
runvars == <<script, pc, file, fileAtStart, docs, cur, last, left, clean,
             pending, errored, nruns, gidx, played>>
vars == <<plog, players, date, prev, blurbs, counted, ngames, script, pc, file,
          fileAtStart, docs, cur, last, left, clean, pending, errored, nruns,
          gidx, played>>

----------------------------------------------------------------------------
(* Bounds *)

MaxLen == 2          \* stat lines per game
MaxGames == 2        \* games processed from the empty ledger
MaxDates == 2        \* distinct date labels

Ids == {"p1", "p2"}
NoId == ""
Dates == 1..MaxDates
Displays == {<<"Ann", "LAL">>, <<"Bob", "BOS">>}
CoreMinutes == {0, 12}

\* The detector is exercised on ledgers left by earlier runs.
MaxLoadedGames == 11     \* games of a loaded entry
MaxLoadedStarts == 5     \* starts of a loaded entry
MaxDetectGames == 1      \* games processed on top of a loaded ledger
LoadedAvgs == {1, 10, 20, 30}
DetectMinutes == {0, 20, 29, 30, 40, 45}

\* Whole runs of the two scripts over one data directory.
MaxRuns == 2             \* runs started
MaxGamesPerDate == 2     \* games get_games returns for a date

----------------------------------------------------------------------------
(* Stat lines as get_players builds them *)

StatLine(id, disp, starter, min) ==
    [id |-> id, name |-> disp[1], team |-> disp[2], starter |-> starter,
     dnp |-> (min = 0), min |-> min]

LinesOver(ids, mins) ==
    {StatLine(id, d, s, m) : id \in ids, d \in Displays, s \in BOOLEAN, m \in mins}

ListsOver(lines, n) == UNION {[1..k -> lines] : k \in 0..n}

----------------------------------------------------------------------------
(* Ledger update *)

EmptyLog == [k \in {} |-> 0]

Counted(p) == p.id # NoId /\ ~p.dnp

FreshEntry(p) ==
    [name |-> p.name, team |-> p.team, games |-> 0, starts |-> 0,
     total_min |-> 0, dates_started |-> <<>>]

\* the entry of a counted line after lines 241-249
EntryAfter(entry, p, d) ==
    [name |-> p.name,
     team |-> p.team,
     games |-> entry.games + 1,
     total_min |-> entry.total_min + p.min,
     starts |-> IF p.starter THEN entry.starts + 1 ELSE entry.starts,
     dates_started |-> IF p.starter THEN Append(entry.dates_started, d)
                       ELSE entry.dates_started]

\* update_entry with the dnp test dropped from the skip condition
update_entry_counts_dnp(log, p, d) ==
    IF p.id = NoId THEN log
    ELSE LET entry == IF p.id \in DOMAIN log THEN log[p.id] ELSE FreshEntry(p)
         IN [k \in DOMAIN log \cup {p.id} |->
                IF k = p.id THEN EntryAfter(entry, p, d) ELSE log[k]]

\* update_entry with the starter branch taken before the dnp test
update_entry_starts_first(log, p, d) ==
    IF p.id = NoId THEN log
    ELSE IF p.dnp
         THEN [k \in DOMAIN log |->
                 IF k = p.id /\ p.starter
                 THEN [log[k] EXCEPT !.starts = @ + 1,
                                     !.dates_started = Append(@, d)]
                 ELSE log[k]]
         ELSE LET entry == IF p.id \in DOMAIN log THEN log[p.id]
                           ELSE FreshEntry(p)
              IN [k \in DOMAIN log \cup {p.id} |->
                     IF k = p.id THEN EntryAfter(entry, p, d) ELSE log[k]]

\* update_entry with the empty-id test dropped from the skip condition
update_entry_keeps_noid(log, p, d) ==
    IF p.dnp THEN log
    ELSE LET entry == IF p.id \in DOMAIN log THEN log[p.id] ELSE FreshEntry(p)
         IN [k \in DOMAIN log \cup {p.id} |->
                IF k = p.id THEN EntryAfter(entry, p, d) ELSE log[k]]

update_entry(log, p, d) ==
    IF ~Counted(p) THEN log
    ELSE LET entry == IF p.id \in DOMAIN log THEN log[p.id] ELSE FreshEntry(p)
         IN [k \in DOMAIN log \cup {p.id} |->
                IF k = p.id THEN EntryAfter(entry, p, d) ELSE log[k]]

RECURSIVE update_player_log(_, _, _)
update_player_log(log, ps, d) ==
    IF ps = <<>> THEN log
    ELSE update_player_log(update_entry(log, Head(ps), d), Tail(ps), d)

----------------------------------------------------------------------------
(* Detector *)

Max(a, b) == IF a >= b THEN a ELSE b

EntryGames(log, id) == IF id \in DOMAIN log THEN log[id].games ELSE 1
EntryTotal(log, id) == IF id \in DOMAIN log THEN log[id].total_min ELSE 0
EntryStarts(log, id) == IF id \in DOMAIN log THEN log[id].starts ELSE 0

\* prev_avg = PrevNum / PrevDen
PrevNum(log, p) == EntryTotal(log, p.id) - p.min
PrevDen(log, p) == Max(EntryGames(log, p.id) - 1, 1)

\* RuleA with the history threshold made exclusive
RuleA_strict_history(log, p) ==
    p.starter /\ EntryStarts(log, p.id) <= 5 /\ EntryGames(log, p.id) - 1 > 5

RuleA(log, p) ==
    p.starter /\ EntryStarts(log, p.id) <= 5 /\ EntryGames(log, p.id) - 1 >= 5

\* RuleB with the absolute threshold made exclusive
RuleB_strict_increase(log, p) ==
    /\ EntryGames(log, p.id) - 1 >= 10
    /\ p.min > 0
    /\ PrevNum(log, p) > 0
    /\ 2 * p.min * PrevDen(log, p) >= 3 * PrevNum(log, p)
    /\ p.min * PrevDen(log, p) - PrevNum(log, p) > 10 * PrevDen(log, p)

RuleB(log, p) ==
    /\ EntryGames(log, p.id) - 1 >= 10
    /\ p.min > 0
    /\ PrevNum(log, p) > 0
    /\ 2 * p.min * PrevDen(log, p) >= 3 * PrevNum(log, p)
    /\ p.min * PrevDen(log, p) - PrevNum(log, p) >= 10 * PrevDen(log, p)

Blurb(kind, i, log, p) ==
    [kind |-> kind, idx |-> i, name |-> p.name, team |-> p.team,
     min |-> p.min, starts |-> EntryStarts(log, p.id)]

\* line_blurbs with the minutes rule on an if of its own instead of the elif
line_blurbs_two_ifs(log, p, i) ==
    IF ~Counted(p) THEN <<>>
    ELSE (IF RuleA(log, p)
          THEN IF EntryStarts(log, p.id) = 1
               THEN <<Blurb("first_start", i, log, p)>>
               ELSE IF EntryStarts(log, p.id) <= 5
                    THEN <<Blurb("nth_start", i, log, p)>>
                    ELSE <<>>
          ELSE <<>>)
         \o (IF RuleB(log, p)
             THEN <<Blurb("minutes_surge", i, log, p)>>
             ELSE <<>>)

line_blurbs(log, p, i) ==
    IF ~Counted(p) THEN <<>>
    ELSE IF RuleA(log, p)
         THEN IF EntryStarts(log, p.id) = 1
              THEN <<Blurb("first_start", i, log, p)>>
              ELSE IF EntryStarts(log, p.id) <= 5
                   THEN <<Blurb("nth_start", i, log, p)>>
                   ELSE <<>>
         ELSE IF RuleB(log, p)
              THEN <<Blurb("minutes_surge", i, log, p)>>
              ELSE <<>>

RECURSIVE blurbs_from(_, _, _)
blurbs_from(log, ps, i) ==
    IF i > Len(ps) THEN <<>>
    ELSE line_blurbs(log, ps[i], i) \o blurbs_from(log, ps, i + 1)

generate_blurbs(log, ps) == blurbs_from(log, ps, 1)

----------------------------------------------------------------------------
(* Ghost bookkeeping *)

RECURSIVE CountLines(_, _)
CountLines(ps, id) ==
    IF ps = <<>> THEN 0
    ELSE (IF Head(ps).id = id /\ ~Head(ps).dnp THEN 1 ELSE 0)
         + CountLines(Tail(ps), id)

----------------------------------------------------------------------------
(* Processing one game: update_player_log, then generate_blurbs *)

Apply(ps, d) ==
    /\ prev' = plog
    /\ plog' = update_player_log(plog, ps, d)
    /\ blurbs' = generate_blurbs(update_player_log(plog, ps, d), ps)
    /\ players' = ps
    /\ date' = d
    /\ counted' = [id \in Ids |-> counted[id] + CountLines(ps, id)]
    /\ ngames' = ngames + 1

\* Games are processed in chronological order: the date label never goes back.
ProcessGame ==
    /\ ngames < MaxGames
    /\ \E ps \in ListsOver(LinesOver(Ids \cup {NoId}, CoreMinutes), MaxLen),
          d \in {x \in Dates : x >= date} :
          Apply(ps, d)
    /\ UNCHANGED runvars

AbsentFile == [kind |-> "absent", data |-> EmptyLog]

RunIdle ==
    /\ script = "scrape"
    /\ pc = "idle"
    /\ file = AbsentFile
    /\ fileAtStart = AbsentFile
    /\ docs = {}
    /\ cur = 1
    /\ last = 1
    /\ left = 0
    /\ clean = EmptyLog
    /\ pending = EmptyLog
    /\ errored = FALSE
    /\ nruns = 0
    /\ gidx = 0
    /\ played = [id \in Ids |-> {}]

Init ==
    /\ plog = EmptyLog
    /\ players = <<>>
    /\ date = 1
    /\ prev = EmptyLog
    /\ blurbs = <<>>
    /\ counted = [id \in Ids |-> 0]
    /\ ngames = 0
    /\ RunIdle

Next == ProcessGame

Spec == Init /\ [][Next]_vars

----------------------------------------------------------------------------
(* The detector on a ledger loaded from earlier runs *)

LoadedEntry(g, st, a) ==
    [name |-> "Ann", team |-> "LAL", games |-> g, starts |-> st,
     total_min |-> g * a, dates_started |-> [i \in 1..st |-> 1]]

LoadedLedgers ==
    {EmptyLog} \cup
    {[k \in {"p1"} |-> LoadedEntry(g, st, a)] :
        g \in 1..MaxLoadedGames, st \in 0..MaxLoadedStarts, a \in LoadedAvgs}

InitDetect ==
    /\ plog \in {l \in LoadedLedgers :
                    \A k \in DOMAIN l : l[k].starts <= l[k].games}
    /\ players = <<>>
    /\ date = 1
    /\ prev = plog
    /\ blurbs = <<>>
    /\ counted = [id \in Ids |-> IF id \in DOMAIN plog THEN plog[id].games ELSE 0]
    /\ ngames = 0
    /\ RunIdle

DetectGame ==
    /\ ngames < MaxDetectGames
    /\ \E ps \in ListsOver(LinesOver({"p1", NoId}, DetectMinutes), MaxLen),
          d \in {x \in Dates : x >= date} :
          Apply(ps, d)
    /\ UNCHANGED runvars

NextDetect == DetectGame

SpecDetect == InitDetect /\ [][NextDetect]_vars

----------------------------------------------------------------------------
(* Whole runs: scrape.py main (one date) and backfill.py main (a date range) *)

ValidFile(log) == [kind |-> "valid", data |-> log]
EmptyFile == [kind |-> "empty", data |-> EmptyLog]       \* zero bytes
PartialFile == [kind |-> "partial", data |-> EmptyLog]   \* a cut-off document

\* what get_players can return for a game; <<>> is a failed fetch
RunLists ==
    { <<>>,
      <<StatLine("p1", <<"Ann", "LAL">>, TRUE, 30)>>,
      <<StatLine("p2", <<"Bob", "BOS">>, FALSE, 12),
        StatLine("p1", <<"Ann", "LAL">>, FALSE, 0)>> }

Ended == {"idle", "done", "halted", "load_failed", "killed"}

\* load_player_log: the ledger, or the JSONDecodeError of json.load
load_player_log_lenient(f) ==
    IF f.kind = "valid" THEN [ok |-> TRUE, log |-> f.data]
    ELSE [ok |-> TRUE, log |-> EmptyLog]

load_player_log(f) ==
    IF f.kind = "absent" THEN [ok |-> TRUE, log |-> EmptyLog]
    ELSE IF f.kind = "valid" THEN [ok |-> TRUE, log |-> f.data]
    ELSE [ok |-> FALSE, log |-> EmptyLog]

StartRun ==
    /\ UNCHANGED worldvars
    /\ pc \in Ended
    /\ nruns < MaxRuns
    /\ nruns' = nruns + 1
    /\ \E sc \in {"scrape", "backfill"}, a \in Dates, b \in Dates :
          /\ sc = "scrape" => a = b
          /\ script' = sc
          /\ cur' = a
          /\ last' = b
    /\ pc' = "load"
    /\ fileAtStart' = file
    /\ ngames' = 0
    /\ left' = 0
    /\ errored' = FALSE
    \* a new process: nothing of the previous run is left in memory
    /\ plog' = EmptyLog
    /\ prev' = EmptyLog
    /\ clean' = EmptyLog
    /\ pending' = EmptyLog
    /\ players' = <<>>
    /\ blurbs' = <<>>
    /\ date' = 1
    /\ counted' = [id \in Ids |-> 0]
    /\ UNCHANGED <<file, docs>>

LoadPlayerLog ==
    /\ UNCHANGED worldvars
    /\ pc = "load"
    /\ IF load_player_log(file).ok
       THEN /\ plog' = load_player_log(file).log
            /\ prev' = load_player_log(file).log
            /\ clean' = load_player_log(file).log
            /\ pending' = load_player_log(file).log
            /\ players' = <<>>
            /\ blurbs' = <<>>
            /\ counted' = [id \in Ids |->
                              IF id \in DOMAIN load_player_log(file).log
                              THEN load_player_log(file).log[id].games ELSE 0]
            /\ pc' = IF script = "scrape" THEN "fetch" ELSE "date"
       ELSE /\ pc' = "load_failed"
            /\ UNCHANGED <<plog, prev, clean, pending, players, blurbs, counted>>
    /\ UNCHANGED <<date, ngames, script, file, fileAtStart, docs, cur,
                   last, left, errored, nruns>>

\* backfill.py: head of the while loop
NextDate ==
    /\ UNCHANGED worldvars
    /\ pc = "date"
    /\ IF cur > last
       THEN pc' = "save" /\ UNCHANGED <<cur, pending>>
       ELSE IF cur \in docs
            THEN pc' = "date" /\ cur' = cur + 1 /\ UNCHANGED pending
            ELSE pc' = "fetch" /\ pending' = clean /\ UNCHANGED cur
    /\ UNCHANGED <<corevars, script, file, fileAtStart, docs, last, left,
                   clean, errored, nruns>>

GetGames ==
    /\ pc = "fetch"
    /\ gidx' = 0
    /\ UNCHANGED played
    /\ left' \in 0..MaxGamesPerDate
    /\ pc' = "games"
    /\ UNCHANGED <<corevars, script, file, fileAtStart, docs, cur, last,
                   clean, pending, errored, nruns>>

RunGame ==
    /\ pc = "games"
    /\ left > 0
    /\ \E ps \in RunLists :
          /\ Apply(ps, cur)
          /\ pending' = update_player_log(pending, ps, cur)
          /\ played' = [id \in Ids |->
                          IF \E i \in 1..Len(ps) : ps[i].id = id /\ Counted(ps[i])
                          THEN played[id] \cup {<<cur, gidx + 1>>}
                          ELSE played[id]]
    /\ left' = left - 1
    /\ gidx' = gidx + 1
    /\ UNCHANGED <<script, pc, file, fileAtStart, docs, cur, last, clean,
                   errored, nruns>>

\* an exception while a game of the date is fetched or assembled
GameError ==
    /\ UNCHANGED worldvars
    /\ pc = "games"
    /\ left > 0
    /\ errored' = (errored \/ pending # clean)
    /\ IF script = "scrape"
       THEN pc' = "halted" /\ UNCHANGED cur
       ELSE pc' = "date" /\ cur' = cur + 1
    /\ UNCHANGED <<corevars, script, file, fileAtStart, docs, last, left,
                   clean, pending, nruns>>

WriteDate ==
    /\ UNCHANGED worldvars
    /\ pc = "games"
    /\ left = 0
    /\ docs' = docs \cup {cur}
    /\ clean' = pending
    /\ IF script = "scrape"
       THEN pc' = "save" /\ UNCHANGED cur
       ELSE pc' = "date" /\ cur' = cur + 1
    /\ UNCHANGED <<corevars, script, file, fileAtStart, last, left, pending,
                   errored, nruns>>

\* save_player_log: open(PLAYER_LOG, "w") truncates the file ...
SaveOpen ==
    /\ UNCHANGED worldvars
    /\ pc = "save"
    /\ file' = EmptyFile
    /\ pc' = "dump"
    /\ UNCHANGED <<corevars, script, fileAtStart, docs, cur, last, left,
                   clean, pending, errored, nruns>>

\* ... json.dump writes it piece by piece (a buffer flush shows a prefix) ...
SaveFlush ==
    /\ UNCHANGED worldvars
    /\ pc = "dump"
    /\ file = EmptyFile
    /\ plog # EmptyLog
    /\ file' = PartialFile
    /\ UNCHANGED <<corevars, script, pc, fileAtStart, docs, cur, last, left,
                   clean, pending, errored, nruns>>

\* ... and leaving the with block completes the document
SaveClose ==
    /\ UNCHANGED worldvars
    /\ pc = "dump"
    /\ file' = ValidFile(plog)
    /\ pc' = "index"
    /\ UNCHANGED <<corevars, script, fileAtStart, docs, cur, last, left,
                   clean, pending, errored, nruns>>

UpdateIndex ==
    /\ UNCHANGED worldvars
    /\ pc = "index"
    /\ pc' = "done"
    /\ UNCHANGED <<corevars, script, file, fileAtStart, docs, cur, last, left,
                   clean, pending, errored, nruns>>

\* the process is killed (or the machine stops) at any step of a run
Crash ==
    /\ UNCHANGED worldvars
    /\ pc \notin Ended
    /\ pc' = "killed"
    /\ UNCHANGED <<corevars, script, file, fileAtStart, docs, cur, last, left,
                   clean, pending, errored, nruns>>

InitRun == Init

NextRun ==
    \/ StartRun
    \/ LoadPlayerLog
    \/ NextDate
    \/ GetGames
    \/ RunGame
    \/ GameError
    \/ WriteDate
    \/ SaveOpen
    \/ SaveFlush
    \/ SaveClose
    \/ UpdateIndex
    \/ Crash

SpecRun == InitRun /\ [][NextRun]_vars

----------------------------------------------------------------------------
(* Claims about the ledger update *)

PrevGames(id) == IF id \in DOMAIN prev THEN prev[id].games ELSE 0
PrevTotal(id) == IF id \in DOMAIN prev THEN prev[id].total_min ELSE 0

HasCounted(ps, id) == \E i \in 1..Len(ps) : ps[i].id = id /\ Counted(ps[i])

\* C1: starting from an empty ledger, every id's games counter equals the
\* number of stat lines passed so far with that id and dnp false, and an id
\* with no such line has no entry.
GamesEqualsCountedLines ==
    \A id \in Ids :
        IF counted[id] = 0 THEN id \notin DOMAIN plog
        ELSE id \in DOMAIN plog /\ plog[id].games = counted[id]

\* a player counted in both games of a run, once with two lines in one game
WitnessGamesCounted ==
    /\ ngames = 2
    /\ counted["p1"] = 3
    /\ counted["p2"] = 0
    /\ \E i \in 1..Len(players) : players[i].id = "p2" /\ players[i].dnp

\* C2: every ledger entry has starts <= games.
StartsAtMostGames ==
    \A id \in DOMAIN plog : plog[id].starts <= plog[id].games

\* an entry that started every game it played, then sat out as a listed starter
WitnessStartsAtMostGames ==
    /\ "p1" \in DOMAIN plog
    /\ plog["p1"].starts = plog["p1"].games
    /\ \E i \in 1..Len(players) :
          players[i].id = "p1" /\ players[i].dnp /\ players[i].starter

\* C3: a game whose lines for an id are all dnp (or whose id is empty)
\* leaves that id's entry as it was, field for field, and creates none.
SkippedLinesLeaveLedger ==
    /\ NoId \notin DOMAIN plog
    /\ \A id \in Ids :
          ~HasCounted(players, id) =>
              /\ (id \in DOMAIN plog) = (id \in DOMAIN prev)
              /\ id \in DOMAIN prev => plog[id] = prev[id]

\* a dnp starter line for an existing entry under another name and team,
\* next to a line with an empty id that played
WitnessSkippedLines ==
    /\ "p1" \in DOMAIN prev
    /\ ~HasCounted(players, "p1")
    /\ \E i, j \in 1..Len(players) :
          /\ players[i].id = "p1" /\ players[i].dnp /\ players[i].starter
          /\ players[i].team # prev["p1"].team
          /\ players[j].id = NoId /\ ~players[j].dnp

\* C4 (as claimed): for every counted stat line the detector's games_before
\* and prior total minutes are the entry's games and total_min as they were
\* right before this game's update.
DetectorSeesPreUpdateState ==
    \A i \in 1..Len(players) :
        Counted(players[i]) =>
            /\ EntryGames(plog, players[i].id) - 1 = PrevGames(players[i].id)
            /\ PrevNum(plog, players[i]) = PrevTotal(players[i].id)

----------------------------------------------------------------------------
(* Claims about the detector, per counted stat line of the last game *)

KindsOf(i) == {blurbs[j].kind : j \in {k \in 1..Len(blurbs) : blurbs[k].idx = i}}
CountOf(i) == Cardinality({k \in 1..Len(blurbs) : blurbs[k].idx = i})

StartKinds == {"first_start", "nth_start"}

\* the detector's quantities for line i, read from the updated ledger
GamesBefore(i) == plog[players[i].id].games - 1
StartsNow(i) == plog[players[i].id].starts
PriorTotal(i) == plog[players[i].id].total_min - players[i].min

RuleACondition(i) ==
    players[i].starter /\ StartsNow(i) <= 5 /\ GamesBefore(i) >= 5

\* prior average = PriorTotal / GamesBefore, compared without dividing
RuleBCondition(i) ==
    /\ GamesBefore(i) >= 10
    /\ players[i].min > 0
    /\ PriorTotal(i) > 0
    /\ 2 * players[i].min * GamesBefore(i) >= 3 * PriorTotal(i)
    /\ (players[i].min * GamesBefore(i)) - PriorTotal(i) >= 10 * GamesBefore(i)

MinutesSurgeIffThresholds ==
    \A i \in 1..Len(players) :
        (Counted(players[i]) /\ ~RuleACondition(i)) =>
            (("minutes_surge" \in KindsOf(i)) <=> RuleBCondition(i))

\* games_before = 10, prior average 20, 30 minutes: exactly 1.5x and +10
WitnessMinutesSurgeBoundary ==
    /\ Len(players) = 1
    /\ Counted(players[1])
    /\ ~players[1].starter
    /\ GamesBefore(1) = 10
    /\ PriorTotal(1) = 200
    /\ players[1].min = 30
    /\ KindsOf(1) = {"minutes_surge"}

\* C7: a counted line gets a new-starter blurb iff the player started,
\* games_before >= 5 and the updated starts <= 5; it is the first-start
\* form exactly when starts = 1 and the Nth-start form for 2..5, with N the
\* updated starts.
NewStarterIffCondition ==
    \A i \in 1..Len(players) :
        Counted(players[i]) =>
            /\ ("first_start" \in KindsOf(i))
                  <=> (RuleACondition(i) /\ StartsNow(i) = 1)
            /\ ("nth_start" \in KindsOf(i))
                  <=> (RuleACondition(i) /\ StartsNow(i) >= 2 /\ StartsNow(i) <= 5)
            /\ (KindsOf(i) \cap StartKinds # {}) <=> RuleACondition(i)
            /\ \A j \in 1..Len(blurbs) :
                  (blurbs[j].idx = i /\ blurbs[j].kind = "nth_start")
                      => blurbs[j].starts = StartsNow(i)

\* games_before = 5 and a first start
WitnessFirstStartBoundary ==
    /\ Len(players) = 1
    /\ Counted(players[1])
    /\ players[1].starter
    /\ GamesBefore(1) = 5
    /\ StartsNow(1) = 1
    /\ KindsOf(1) = {"first_start"}

----------------------------------------------------------------------------
(* Claims about whole runs *)

Malformed(f) == f.kind \in {"empty", "partial"}

PersistedLedger == IF file.kind = "valid" THEN file.data ELSE EmptyLog

\* C8 (as claimed): in every state of a run the ledger file is either what
\* it was at run start or the complete final in-memory ledger.
LedgerFileWrittenAtomically ==
    pc # "idle" => (file = fileAtStart \/ file = ValidFile(plog))

\* C9 (as claimed): when a date of the run raised after some of its games
\* were applied, the ledger persisted at the end of the run holds nothing
\* beyond the dates whose result document was written.
FailedDateNotPersisted ==
    (errored /\ pc \in {"done", "halted"} /\ ~Malformed(file))
        => PersistedLedger = clean

\* C10: a run started on a malformed ledger file stops at load_player_log:
\* no game is processed, save_player_log is not reached and the file is not
\* replaced; a run started without a ledger file loads the empty ledger and
\* is not stopped by the load.
MalformedLedgerAbortsRun ==
    /\ (pc # "idle" /\ Malformed(fileAtStart)) =>
          /\ pc \in {"load", "load_failed", "killed"}
          /\ ngames = 0
          /\ file = fileAtStart
    /\ (pc # "idle" /\ fileAtStart.kind = "absent") =>
          /\ pc # "load_failed"
          /\ (pc \notin {"load", "killed"} /\ ngames = 0) => plog = EmptyLog

\* a run that found a cut-off ledger file and stopped at the load
WitnessMalformedAborts ==
    /\ fileAtStart = PartialFile
    /\ pc = "load_failed"

\* C11 (as claimed): over any sequence of runs of the two scripts on one
\* data directory, the persisted games counter of a player never exceeds
\* the number of distinct real games the player played in.
PersistedGamesWithinRealGames ==
    \A id \in Ids :
        (file.kind = "valid" /\ id \in DOMAIN file.data)
            => file.data[id].games <= Cardinality(played[id])

====
